---- MODULE Spec2Model ----
(***************************************************************************)
(* whisper-stream to markers: the ReaScript that starts and stops the      *)
(* whisper-stream subprocess with the host's record state and turns the    *)
(* lines it prints into project markers.                                   *)
(*                                                                         *)
(* A Python string is a sequence of one-character strings; the escape      *)
(* character is the token ESC.  A raw line is what readline() returns.     *)
(*                                                                         *)
(* Each handler the host calls is one action.  What the host and the       *)
(* operating system hand to a handler (the play state, the play position,  *)
(* the chunk readline() returns, the outcome of starting the process) is   *)
(* an input of the action, drawn from a small set.  One run of the script  *)
(* is modelled: from loading it to the host terminating it.                *)
(***************************************************************************)
EXTENDS Integers, Sequences, FiniteSets, TLC

\* ---------------------------------------------------------------- bounds
MaxLengthMs == 3
MaxStepMs == 1
MaxPos == 1
MaxCounted == 2
MaxSanLen == 4
MaxSanPasses == 2

\* ------------------------------------------------------ program constants
LENGTH_MS == 10000
STEP_MS == 1000
DefaultCommitInterval == 9
RecordBit == 4

\* ------------------------------------------------------- string helpers
ESC == "ESC"
CR == "\r"
LF == "\n"

DigitChars == {"0", "1", "2", "3", "4", "5", "6", "7", "8", "9"}
Whitespace == {" ", "\t", LF, CR}

LowerChars == <<"a","b","c","d","e","f","g","h","i","j","k","l","m",
                "n","o","p","q","r","s","t","u","v","w","x","y","z">>
UpperChars == <<"A","B","C","D","E","F","G","H","I","J","K","L","M",
                "N","O","P","Q","R","S","T","U","V","W","X","Y","Z">>

\* str.upper() on one character
UpperChar(c) ==
    IF \E i \in 1..Len(LowerChars) : LowerChars[i] = c
    THEN UpperChars[CHOOSE i \in 1..Len(LowerChars) : LowerChars[i] = c]
    ELSE c

\* str.upper()
Upper(s) == [i \in 1..Len(s) |-> UpperChar(s[i])]

\* str.strip()
strip(s) ==
    LET keep == {i \in 1..Len(s) : s[i] \notin Whitespace}
    IN  IF keep = {} THEN <<>>
        ELSE LET lo == CHOOSE i \in keep : \A j \in keep : i <= j
                 hi == CHOOSE i \in keep : \A j \in keep : j <= i
             IN  SubSeq(s, lo, hi)

\* the Python test  sub in s
Contains(sub, s) ==
    \E i \in 1..(Len(s) - Len(sub) + 1) : SubSeq(s, i, i + Len(sub) - 1) = sub

CharAt(s, i) == IF i >= 1 /\ i <= Len(s) THEN s[i] ELSE "EOS"

\* number of characters matched by [0-9]{1,2} at position i (0: no match)
DigitRun(s, i) ==
    IF CharAt(s, i) \in DigitChars
    THEN (IF CharAt(s, i + 1) \in DigitChars THEN 2 ELSE 1)
    ELSE 0

\* length of the match of  \r|\x1b\[([0-9]{1,2}(;[0-9]{1,2})?)?[mK]  that
\* starts at position i, 0 when the pattern does not match there
AnsiMatchLen(s, i) ==
    IF CharAt(s, i) = CR THEN 1
    ELSE IF CharAt(s, i) = ESC /\ CharAt(s, i + 1) = "["
    THEN LET d1 == DigitRun(s, i + 2)
             j  == i + 2 + d1
             d2 == IF d1 > 0 /\ CharAt(s, j) = ";" THEN DigitRun(s, j + 1) ELSE 0
             k  == IF d2 > 0 THEN j + 1 + d2 ELSE j
         IN  IF CharAt(s, k) \in {"m", "K"} THEN k - i + 1 ELSE 0
    ELSE 0

RECURSIVE StripFrom(_, _)
StripFrom(s, i) ==
    IF i > Len(s) THEN <<>>
    ELSE LET n == AnsiMatchLen(s, i)
         IN  IF n > 0 THEN StripFrom(s, i + n)
             ELSE <<s[i]>> \o StripFrom(s, i + 1)

\* re.sub(pattern, '', s)
strip_ansi_codes(s) == StripFrom(s, 1)

\* --------------------------------------------------------- sentinel text
StartSpeaking == <<"[","S","t","a","r","t"," ","s","p","e","a","k","i","n","g","]">>

NoSpeechSentinels ==
    { <<"[","B","L","A","N","K"," ","A","U","D","I","O","]">>,
      <<"[", " ","S","I","L","E","N","C","E"," ","]">>,
      <<"[","B","L","A","N","K","_","A","U","D","I","O","]">>,
      <<"[","S","I","L","E","N","C","E","]">> }

\* ------------------------------------- lines whisper-stream may print
\* (with the terminal control codes it puts in front of them)
LineStart    == <<ESC,"[","2","K",CR>> \o StartSpeaking \o <<LF>>
LineEmpty    == <<ESC,"[","2","K",CR," ",LF>>
LineBlank    == <<ESC,"[","2","K",CR," ","[","B","l","a","n","k","_","A","u","d","i","o","]",LF>>
LineHello    == <<ESC,"[","2","K",CR," ","h","i",LF>>
LineHelloYo  == <<" ","h","i"," ","y","o",LF>>

RawLines == {LineStart, LineEmpty, LineBlank, LineHello, LineHelloYo}

\* readline() found no complete line: '' or IOError
NoLine == <<>>

\* strip_ansi_codes(line).strip() for every chunk readline() may return,
\* computed once
cleaned == [line \in RawLines \cup {NoLine} |-> strip(strip_ansi_codes(line))]

\* ------------------------------------------------------------------ state
VARIABLES
    length_ms,             \* LENGTH_MS of this installation
    step_ms,               \* STEP_MS of this installation
    g_process,             \* None, or the index in procs of the Popen handle
    g_speech_started,
    g_commit_interval,
    g_iter_count,
    g_utterance_start_pos,
    g_is_recording,
    procs,                 \* the subprocesses spawned so far: running, exited, terminated
    markers,               \* project markers created by RPR_AddProjectMarker2
    errorsShown,           \* number of RPR_ShowMessageBox calls
    watcherArmed,          \* check_recording_state is scheduled (RPR_defer or first call)
    pumpArmed,             \* number of scheduled poll_whisper_output callbacks
    scriptRunning,         \* the host has not yet terminated the script
    lastEvent,             \* path taken by the last handler that ran
    lastLine,              \* history: the chunk the last pump tick read
    linesCounted,          \* history: non-empty, non-discarded lines fed while Accumulating
    positionsSampled,      \* history: values RPR_GetPlayPosition() returned on lines 101, 111
    lastPlayState,         \* history: what RPR_GetPlayState() returned on the last watcher tick
    sanInput,              \* sanitizer study: the string handed to strip_ansi_codes
    sanPasses              \* sanitizer study: results of applying strip_ansi_codes again and again

globals == <<g_process, g_speech_started, g_commit_interval, g_iter_count,
             g_utterance_start_pos, g_is_recording>>
session == <<g_speech_started, g_iter_count, g_utterance_start_pos>>
config  == <<length_ms, step_ms>>
host    == <<markers, errorsShown>>
history == <<lastLine, linesCounted, positionsSampled>>
sanitizer == <<sanInput, sanPasses>>
vars    == <<length_ms, step_ms, g_process, g_speech_started, g_commit_interval,
             g_iter_count, g_utterance_start_pos, g_is_recording, procs,
             markers, errorsShown, watcherArmed, pumpArmed,
             scriptRunning, lastEvent, lastLine, linesCounted, positionsSampled,
             lastPlayState, sanInput, sanPasses>>

None == 0

\* configurations tried: small windows and steps, and the shipped one
Configs == ((0..MaxLengthMs) \X (0..MaxStepMs)) \cup {<<LENGTH_MS, STEP_MS>>}
\* values RPR_GetPlayState() returns: stopped, playing, recording
PlayStates == {0, 1, 5}
\* values RPR_GetPlayPosition() returns
Positions == 0..MaxPos
StartOutcomes == {"nofile", "spawnfail", "postfail", "ok"}

\* g_process and g_process.poll() is None
Alive(p) == p # None /\ procs[p] = "running"

Running == {p \in DOMAIN procs : procs[p] = "running"}

\* variant: the play bit (&1) is tested instead of the record bit
IsRecordingBit_play(ps) == ps % 2 = 1

\* (RPR_GetPlayState() & 4) != 0
IsRecordingBit(ps) == (ps \div RecordBit) % 2 = 1

Init ==
    /\ \E c \in Configs : length_ms = c[1] /\ step_ms = c[2]
    /\ g_process = None
    /\ g_speech_started = FALSE
    /\ g_commit_interval = 0
    /\ g_iter_count = 0
    /\ g_utterance_start_pos = 0
    /\ g_is_recording = FALSE
    /\ procs = <<>>
    /\ markers = <<>>
    /\ errorsShown = 0
    /\ watcherArmed = TRUE
    /\ pumpArmed = 0
    /\ scriptRunning = TRUE
    /\ lastEvent = "init"
    /\ lastLine = NoLine
    /\ linesCounted = 0
    /\ positionsSampled = <<>>
    /\ lastPlayState = 0
    /\ sanInput = <<>>
    /\ sanPasses = <<>>

\* ------------------------------------------------------- utterance logic
\* variant: any non-empty line is taken for the speech-start line
IsSpeechStart_anyLine(cleaned_line) == cleaned_line # <<>>

\* "[Start speaking]" in cleaned_line
IsSpeechStart(cleaned_line) == Contains(StartSpeaking, cleaned_line)

\* cleaned_line.upper() in ["[BLANK AUDIO]", "[ SILENCE ]", "[BLANK_AUDIO]", "[SILENCE]"]
IsNoSpeech(cleaned_line) == Upper(cleaned_line) \in NoSpeechSentinels

\* Python's a % b for b # 0: the result has the sign of b
PyMod(a, b) == IF b > 0 THEN a % b ELSE -((-a) % (-b))

\* variant: the counter wraps one line late
NextIterCount_late(iter, interval) == PyMod(iter + 1, interval + 1)

\* (g_iter_count + 1) % g_commit_interval
NextIterCount(iter, interval) == PyMod(iter + 1, interval)

\* buffer_end = g_iter_count is 0
buffer_end(iter) == iter = 0

\* variant: the marker is put at the position of the committing tick
CommitPosition_now(anchor, now) == now

\* the position handed to add_marker on a commit
CommitPosition(anchor, now) == anchor

\* add_marker(text, position): the markers it appends
add_marker(text, position) ==
    LET stripped_text == strip(text)
    IN  IF stripped_text = <<>> THEN <<>>
        ELSE <<[name |-> stripped_text, pos |-> position]>>

\* variant: the lower bound of 1 is missing
CommitInterval_noFloor(len, step) ==
    IF step > 0 THEN (len \div step) - 1 ELSE DefaultCommitInterval

\* variant: the "- 1" is missing
CommitInterval_noMinus(len, step) ==
    IF step > 0
    THEN (IF (len \div step) > 1 THEN (len \div step) ELSE 1)
    ELSE DefaultCommitInterval

\* max(1, LENGTH_MS // STEP_MS - 1), or 9 when STEP_MS is 0
CommitInterval(len, step) ==
    IF step > 0
    THEN (IF (len \div step) - 1 > 1 THEN (len \div step) - 1 ELSE 1)
    ELSE DefaultCommitInterval

\* Lines 94-111 of poll_whisper_output on the chunk readline() returned.
\* rearm is FALSE when the body leaves the function before line 118.
PollLine(line, started, iter, anchor, interval, now) ==
    LET cleaned_line == cleaned[line]
        same == [started |-> started, iter |-> iter, anchor |-> anchor,
                 added |-> <<>>, rearm |-> TRUE, event |-> "pump_nodata"]
    IN  IF line = NoLine THEN same
        ELSE IF ~started
        THEN IF IsSpeechStart(cleaned_line)
             THEN [same EXCEPT !.started = TRUE, !.anchor = now,
                               !.event = "pump_speech"]
             ELSE [same EXCEPT !.event = "pump_chatter"]
        ELSE IF cleaned_line # <<>>
        THEN IF IsNoSpeech(cleaned_line)
             THEN [same EXCEPT !.rearm = FALSE, !.event = "pump_sentinel"]
             ELSE IF interval = 0
             THEN [same EXCEPT !.rearm = FALSE, !.event = "pump_zerodiv"]
             ELSE LET n == NextIterCount(iter, interval)
                  IN  IF buffer_end(n)
                      THEN [same EXCEPT !.iter = n,
                                 !.added = add_marker(cleaned_line, CommitPosition(anchor, now)),
                                 !.anchor = now, !.event = "pump_commit"]
                      ELSE [same EXCEPT !.iter = n, !.event = "pump_absorb"]
        ELSE [same EXCEPT !.event = "pump_empty"]

\* variant: only the handle is tested, not whether the process is alive
PumpMayRead_handleOnly == g_process # None

\* the pump callback may run: not (not g_process or g_process.poll() is not None)
PumpMayRead == Alive(g_process)

\* a chunk that counts towards the commit interval when fed while Accumulating
Countable(line) ==
    /\ cleaned[line] # <<>>
    /\ Upper(cleaned[line]) \notin NoSpeechSentinels

\* what readline() may return on this tick
Readable == IF linesCounted < MaxCounted THEN RawLines \cup {NoLine} ELSE {NoLine}

\* poll_whisper_output(), run as a deferred callback: readline() returns line
\* (NoLine: '' or IOError), RPR_GetPlayPosition() returns now, and exits
\* tells whether the process has exited by the time line 118 polls it
poll_whisper_output ==
    /\ scriptRunning
    /\ pumpArmed > 0
    /\ IF ~PumpMayRead
       THEN /\ pumpArmed' = pumpArmed - 1
            /\ lastEvent' = "pump_dead"
            /\ lastLine' = NoLine
            /\ UNCHANGED <<globals, procs, host, linesCounted, positionsSampled>>
       ELSE \E line \in Readable, exits \in BOOLEAN :
            /\ lastLine' = line
            /\ procs' = [procs EXCEPT ![g_process] =
                            IF exits THEN "exited" ELSE "running"]
            /\ linesCounted' = IF g_speech_started /\ line # NoLine /\ Countable(line)
                               THEN linesCounted + 1 ELSE linesCounted
            /\ \E now \in Positions :
               \E r \in {PollLine(line, g_speech_started, g_iter_count,
                                  g_utterance_start_pos, g_commit_interval, now)} :
                /\ g_speech_started' = r.started
                /\ g_iter_count' = r.iter
                /\ g_utterance_start_pos' = r.anchor
                /\ markers' = markers \o r.added
                /\ pumpArmed' = IF r.rearm /\ ~exits THEN pumpArmed ELSE pumpArmed - 1
                /\ lastEvent' = r.event
                /\ positionsSampled' = IF r.event \in {"pump_commit", "pump_speech"}
                                       THEN Append(positionsSampled, now)
                                       ELSE positionsSampled
            /\ UNCHANGED <<g_process, g_commit_interval, g_is_recording,
                           errorsShown>>
    /\ UNCHANGED <<config, watcherArmed, scriptRunning, lastPlayState, sanitizer>>

\* --------------------------------------------------- process supervision
\* variant: the session is taken over as already started
SessionDefaults_started == [started |-> TRUE, iter |-> 0, anchor |-> 0]

\* what lines 134-136 of start_process give the session variables:
\* g_speech_started = False, g_iter_count = 0, g_utterance_start_pos = 0.0
SessionDefaults == [started |-> FALSE, iter |-> 0, anchor |-> 0]

\* start_process(); outcome is what the operating system lets happen:
\*   nofile     os.path.isfile(WHISPER_EXECUTABLE) is false
\*   spawnfail  subprocess.Popen raises
\*   postfail   Popen succeeded, fcntl raises
\*   ok         the process runs and the first poll_whisper_output() is made,
\*              which finds the new pipe empty
start_process(outcome, now) ==
    IF Alive(g_process)
    THEN /\ lastEvent' = "start_blocked"
         /\ UNCHANGED <<g_process, session, g_commit_interval, procs, pumpArmed,
                        host, history>>
    ELSE /\ g_commit_interval' = CommitInterval(length_ms, step_ms)
         /\ lastLine' = NoLine
         /\ linesCounted' = 0
         /\ positionsSampled' = <<>>
         /\ lastEvent' = "start_" \o outcome
         /\ CASE outcome = "nofile" ->
                   /\ g_speech_started' = SessionDefaults.started
                   /\ g_iter_count' = SessionDefaults.iter
                   /\ g_utterance_start_pos' = SessionDefaults.anchor
                   /\ errorsShown' = errorsShown + 1
                   /\ UNCHANGED <<g_process, procs, pumpArmed, markers>>
              [] outcome = "spawnfail" ->
                   /\ g_speech_started' = SessionDefaults.started
                   /\ g_iter_count' = SessionDefaults.iter
                   /\ g_utterance_start_pos' = SessionDefaults.anchor
                   /\ errorsShown' = errorsShown + 1
                   /\ g_process' = None
                   /\ UNCHANGED <<procs, pumpArmed, markers>>
              [] outcome = "postfail" ->
                   /\ g_speech_started' = SessionDefaults.started
                   /\ g_iter_count' = SessionDefaults.iter
                   /\ g_utterance_start_pos' = SessionDefaults.anchor
                   /\ procs' = Append(procs, "running")
                   /\ errorsShown' = errorsShown + 1
                   /\ g_process' = None
                   /\ UNCHANGED <<pumpArmed, markers>>
              [] outcome = "ok" ->
                   /\ procs' = Append(procs, "running")
                   /\ g_process' = Len(procs) + 1
                   /\ \E r \in {PollLine(NoLine, SessionDefaults.started,
                                         SessionDefaults.iter, SessionDefaults.anchor,
                                         CommitInterval(length_ms, step_ms), now)} :
                          /\ g_speech_started' = r.started
                          /\ g_iter_count' = r.iter
                          /\ g_utterance_start_pos' = r.anchor
                          /\ markers' = markers \o r.added
                          /\ pumpArmed' = IF r.rearm THEN pumpArmed + 1 ELSE pumpArmed
                   /\ UNCHANGED errorsShown

\* variant: the liveness test is inverted, a live process is left alone
stop_process_inverted ==
    IF g_process # None /\ ~Alive(g_process)
    THEN /\ g_process' = None
         /\ UNCHANGED <<procs, session>>
    ELSE UNCHANGED <<g_process, procs, session>>

\* variant: the signal is sent to whatever handle is held, alive or not
stop_process_noPoll ==
    IF g_process # None
    THEN /\ procs' = [procs EXCEPT ![g_process] = "terminated"]
         /\ g_process' = None
         /\ UNCHANGED session
    ELSE UNCHANGED <<g_process, procs, session>>

\* stop_process(); only g_process is declared global, so lines 185-187 bind
\* locals and the session variables keep their values
stop_process ==
    IF Alive(g_process)
    THEN /\ procs' = [procs EXCEPT ![g_process] = "terminated"]
         /\ g_process' = None
         /\ UNCHANGED session
    ELSE UNCHANGED <<g_process, procs, session>>

\* ------------------------------------------------ recording-state watcher
\* variant: level-triggered, the flag is not consulted
StartEdge_level(is_currently_recording, was_recording) ==
    is_currently_recording

\* is_currently_recording and not g_is_recording
StartEdge(is_currently_recording, was_recording) ==
    is_currently_recording /\ ~was_recording

\* variant: the stop edge is never seen
StopEdge_never(is_currently_recording, was_recording) == FALSE

\* not is_currently_recording and g_is_recording
StopEdge(is_currently_recording, was_recording) ==
    ~is_currently_recording /\ was_recording

\* check_recording_state(): RPR_GetPlayState() returns ps
check_recording_state ==
    /\ scriptRunning
    /\ watcherArmed
    /\ \E ps \in PlayStates :
       LET is_currently_recording == IsRecordingBit(ps)
       IN  /\ lastPlayState' = ps
           /\ IF StartEdge(is_currently_recording, g_is_recording)
              THEN /\ g_is_recording' = TRUE
                   /\ \E outcome \in StartOutcomes, now \in Positions :
                          start_process(outcome, now)
                   /\ watcherArmed' = TRUE
              ELSE IF StopEdge(is_currently_recording, g_is_recording)
              THEN /\ g_is_recording' = FALSE
                   /\ stop_process
                   /\ watcherArmed' = FALSE
                   /\ lastEvent' = "watch_stop"
                   /\ UNCHANGED <<g_commit_interval, host, pumpArmed, history>>
              ELSE /\ watcherArmed' = TRUE
                   /\ lastEvent' = "watch_wait"
                   /\ UNCHANGED <<globals, procs, host, pumpArmed, history>>
    /\ UNCHANGED <<config, scriptRunning, sanitizer>>

\* __reaper_atexit(): the host terminates the script; nothing deferred runs
\* afterwards
reaper_atexit ==
    /\ scriptRunning
    /\ scriptRunning' = FALSE
    /\ stop_process
    /\ lastEvent' = "atexit"
    /\ UNCHANGED <<config, g_commit_interval, g_is_recording, host,
                   watcherArmed, pumpArmed, history, lastPlayState, sanitizer>>

\* ------------------------------------------------------------ environment
\* a running whisper-stream exits on its own
ProcessExit ==
    /\ \E p \in Running : procs' = [procs EXCEPT ![p] = "exited"]
    /\ UNCHANGED <<config, globals, host, watcherArmed, pumpArmed,
                   scriptRunning, lastEvent, history, lastPlayState, sanitizer>>

Next ==
    \/ check_recording_state
    \/ poll_whisper_output
    \/ reaper_atexit
    \/ ProcessExit

Spec == Init /\ [][Next]_vars

\* ------------------------------------------------------- sanitizer study
\* strip_ansi_codes is a pure function: it is studied on its own, on every
\* string of up to MaxSanLen characters over SanAlphabet, by feeding its
\* result to it again.  The script itself stays as loaded.
SanAlphabet == {ESC, "[", "1", ";", "m", "K", CR, "a"}

SanInputs == UNION {[1..n -> SanAlphabet] : n \in 0..MaxSanLen}

SanLast == IF sanPasses = <<>> THEN sanInput ELSE sanPasses[Len(sanPasses)]

InitSan ==
    /\ sanInput \in SanInputs
    /\ sanPasses = <<>>
    /\ length_ms = LENGTH_MS
    /\ step_ms = STEP_MS
    /\ g_process = None
    /\ g_speech_started = FALSE
    /\ g_commit_interval = 0
    /\ g_iter_count = 0
    /\ g_utterance_start_pos = 0
    /\ g_is_recording = FALSE
    /\ procs = <<>>
    /\ markers = <<>>
    /\ errorsShown = 0
    /\ watcherArmed = TRUE
    /\ pumpArmed = 0
    /\ scriptRunning = TRUE
    /\ lastEvent = "init"
    /\ lastLine = NoLine
    /\ linesCounted = 0
    /\ positionsSampled = <<>>
    /\ lastPlayState = 0

\* one more call: strip_ansi_codes(s) with s the previous result
Sanitize ==
    /\ Len(sanPasses) < MaxSanPasses
    /\ sanPasses' = Append(sanPasses, strip_ansi_codes(SanLast))
    /\ UNCHANGED <<config, globals, procs, host, watcherArmed, pumpArmed,
                   scriptRunning, lastEvent, history, lastPlayState, sanInput>>

NextSan == Sanitize

SpecSan == InitSan /\ [][NextSan]_vars

\* ================================================================ claims
LastMarker == markers[Len(markers)]

\* a pump tick can read, and the step leaves a chunk as the last one read
PumpRead == scriptRunning /\ pumpArmed > 0 /\ Alive(g_process) /\ lastLine' # NoLine

\* start_process has run in this script instance
SessionBegun == g_is_recording \/ procs # <<>> \/ errorsShown > 0

\* C1: while Accumulating a marker is created on exactly every
\* commitInterval-th non-empty, non-discarded line that is fed and on no
\* other line, its text is that line, and the counter is the number of such
\* lines modulo commitInterval.
C1_CommitEveryIntervalLine ==
    /\ [](g_commit_interval > 0 =>
            /\ Len(markers) = linesCounted \div g_commit_interval
            /\ g_iter_count = linesCounted % g_commit_interval)
    /\ [][markers' # markers =>
            /\ PumpRead
            /\ g_speech_started
            /\ Countable(lastLine')
            /\ (linesCounted + 1) % g_commit_interval = 0
            /\ Len(markers') = Len(markers) + 1
            /\ SubSeq(markers', 1, Len(markers)) = markers
            /\ markers'[Len(markers')].name = cleaned[lastLine']]_vars

C1_Witness ==
    /\ lastEvent = "pump_commit"
    /\ g_commit_interval = 2
    /\ linesCounted = 2
    /\ Len(markers) = 1
    /\ LastMarker.name = <<"h", "i", " ", "y", "o">>

\* C2: every marker is placed at the play position sampled at the start of
\* its window (the speech-start tick for the first marker, the previous
\* commit's tick for the later ones), not at the committing tick's position,
\* and after a commit the anchor is the committing tick's position.
C2_MarkerAtWindowStart ==
    /\ \A k \in 1..Len(markers) :
          k <= Len(positionsSampled) /\ markers[k].pos = positionsSampled[k]
    /\ g_speech_started =>
          /\ Len(positionsSampled) = Len(markers) + 1
          /\ g_utterance_start_pos = positionsSampled[Len(positionsSampled)]

C2_Witness ==
    /\ lastEvent = "pump_commit"
    /\ Len(markers) = 2
    /\ markers[1].pos # markers[2].pos
    /\ LastMarker.pos # g_utterance_start_pos

\* C3: every execution of poll_whisper_output that ends with the process
\* still alive leaves a pump callback scheduled, whatever it read.
C3_PumpRearmedWhileAlive ==
    [][(poll_whisper_output /\ Alive(g_process)') => pumpArmed' >= 1]_vars

\* C4: consuming a no-speech sentinel while Accumulating is transparent: the
\* counter, the anchor, speechStarted and the markers stay as they are and
\* the pump goes on as before, so the lines around it are committed as if
\* it had not been there.
C4_SentinelIsTransparent ==
    [][(/\ PumpRead
        /\ g_speech_started
        /\ poll_whisper_output
        /\ Upper(cleaned[lastLine']) \in NoSpeechSentinels
        /\ Alive(g_process)')
       => UNCHANGED <<g_iter_count, g_utterance_start_pos, g_speech_started,
                      markers, pumpArmed>>]_vars

\* C5: in Idle a line without "[Start speaking]" creates no marker and
\* changes neither the state, the counter nor the anchor; Idle is left only
\* by consuming a line with the sentinel, and markers are created only
\* after that.
C5_IdleIgnoresOtherLines ==
    /\ [][(/\ ~g_speech_started
           /\ PumpRead
           /\ ~Contains(StartSpeaking, cleaned[lastLine']))
          => UNCHANGED <<session, markers>>]_vars
    /\ [][(~g_speech_started /\ g_speech_started') =>
             /\ PumpRead
             /\ Contains(StartSpeaking, cleaned[lastLine'])]_vars
    /\ [][markers' # markers => g_speech_started]_vars

C5_Witness ==
    /\ lastEvent = "pump_chatter"
    /\ lastLine = LineHello
    /\ ~g_speech_started
    /\ markers = <<>>
    /\ g_iter_count = 0
    /\ pumpArmed = 1

\* C6: when the watcher handles a record-stop edge with a live process, the
\* session is back at its defaults afterwards and no handle is held.
C6_StopResetsSession ==
    [][(/\ check_recording_state
        /\ g_is_recording
        /\ ~g_is_recording'
        /\ Alive(g_process))
       => /\ g_speech_started' = FALSE
          /\ g_iter_count' = 0
          /\ g_utterance_start_pos' = 0
          /\ g_process' = None]_vars

\* C7: once the watcher has handled the record-stop edge (it is then no
\* longer scheduled), no marker is created any more, neither for a partly
\* accumulated window nor by a pump callback scheduled before the stop.
C7_NoMarkerAfterStop ==
    [][~watcherArmed => markers' = markers]_vars

C7_Witness ==
    /\ ~watcherArmed
    /\ lastEvent = "pump_dead"
    /\ g_process = None
    /\ g_iter_count # 0
    /\ \E p \in DOMAIN procs : procs[p] = "terminated"

\* C8: at most one subprocess spawned by the script is running, whatever
\* the host, the process and the start outcomes do.
C8_AtMostOneProcess ==
    /\ Cardinality(Running) <= 1
    /\ g_process # None => g_process \in DOMAIN procs

C8_Witness ==
    /\ lastEvent = "watch_wait"
    /\ g_is_recording
    /\ g_process = None
    /\ Cardinality(Running) = 1

\* C9: from session start on the counter is in [0, commitInterval), and the
\* modulo of the pump step is never evaluated with commitInterval = 0.
C9_IterCountInRange ==
    /\ lastEvent # "pump_zerodiv"
    /\ SessionBegun =>
          /\ g_commit_interval >= 1
          /\ 0 <= g_iter_count
          /\ g_iter_count < g_commit_interval
    /\ pumpArmed > 0 => SessionBegun

C9_Witness ==
    /\ lastEvent = "pump_absorb"
    /\ g_commit_interval = 2
    /\ g_iter_count = g_commit_interval - 1

\* max(1, length_ms // step_ms - 1), or 9 when step_ms is 0
ExpectedInterval ==
    IF step_ms > 0
    THEN (IF (length_ms \div step_ms) - 1 >= 1
          THEN (length_ms \div step_ms) - 1 ELSE 1)
    ELSE DefaultCommitInterval

\* C10: at session start commitInterval becomes max(1, length_ms // step_ms
\* - 1) for step_ms > 0 (9 for 10000 and 1000) and 9 for step_ms = 0; it is
\* set once, by the watcher's start edge, and no later step changes it.
C10_CommitIntervalFixed ==
    /\ [](SessionBegun => g_commit_interval = ExpectedInterval)
    /\ []((SessionBegun /\ length_ms = 10000 /\ step_ms = 1000)
             => g_commit_interval = 9)
    /\ []((SessionBegun /\ step_ms > 0 /\ length_ms < 2 * step_ms)
             => g_commit_interval = 1)
    /\ [][g_commit_interval' # g_commit_interval =>
             /\ check_recording_state
             /\ ~g_is_recording
             /\ g_is_recording'
             /\ g_commit_interval = 0]_vars

C10_Witness ==
    /\ length_ms = LENGTH_MS
    /\ step_ms = STEP_MS
    /\ g_commit_interval = 9
    /\ lastEvent = "pump_absorb"
    /\ g_iter_count = 2

\* C11: the sanitizer is idempotent: for every string x over the alphabet,
\* strip_ansi_codes(strip_ansi_codes(x)) = strip_ansi_codes(x).
C11_SanitizerIdempotent ==
    Len(sanPasses) >= 2 => sanPasses[2] = sanPasses[1]

StartEvents == {"start_nofile", "start_spawnfail", "start_postfail", "start_ok"}

\* C12: the watcher is edge-triggered and ends on the first stop edge: a
\* tick that samples "recording" while the flag is false makes one call of
\* start_process (at most one process more) and re-arms; a tick without an
\* edge starts and stops nothing, leaves the session, the handle and the
\* processes alone and re-arms; a tick that samples "not recording" while
\* the flag is true stops the held process and does not re-arm; once the
\* watcher is not scheduled it never is again, no tick runs and no process
\* is started.
C12_WatcherEdgeTriggered ==
    /\ [][check_recording_state =>
            IF IsRecordingBit(lastPlayState') /\ ~g_is_recording
            THEN /\ watcherArmed'
                 /\ lastEvent' \in StartEvents
                 /\ Len(procs') <= Len(procs) + 1
                 /\ SubSeq(procs', 1, Len(procs)) = procs
            ELSE IF ~IsRecordingBit(lastPlayState') /\ g_is_recording
            THEN /\ ~watcherArmed'
                 /\ lastEvent' = "watch_stop"
                 /\ ~Alive(g_process)'
                 /\ Alive(g_process) => procs'[g_process] = "terminated"
                 /\ Len(procs') = Len(procs)
            ELSE /\ watcherArmed'
                 /\ lastEvent' = "watch_wait"
                 /\ UNCHANGED <<session, g_process, g_commit_interval, procs,
                                pumpArmed, markers>>]_vars
    /\ [][~watcherArmed =>
            /\ ~watcherArmed'
            /\ ~check_recording_state
            /\ Len(procs') = Len(procs)
            /\ UNCHANGED <<g_is_recording, lastPlayState>>]_vars

C12_Witness ==
    /\ ~watcherArmed
    /\ scriptRunning
    /\ lastEvent = "watch_stop"
    /\ lastPlayState = 1
    /\ ~g_is_recording
    /\ procs = <<"terminated">>
    /\ pumpArmed = 1

\* start_process has failed before a process existed: the error was shown
\* and nothing was spawned (the executable is no file, or Popen raised)
StartFailed == errorsShown > 0 /\ procs = <<>>

\* C13: a start failure is terminal for the session: when start_process
\* fails because the executable is no file or because spawning raises, the
\* error display is invoked once; from then on no handle is held, no pump
\* callback is scheduled, no marker is created, and no later watcher tick
\* calls start_process again, however long the host keeps recording.
C13_StartFailureTerminal ==
    /\ [][(lastEvent' \in {"start_nofile", "start_spawnfail"} /\ lastEvent' # lastEvent)
           => /\ StartFailed'
              /\ errorsShown' = errorsShown + 1
              /\ g_process' = None
              /\ pumpArmed' = 0
              /\ markers' = markers]_vars
    /\ [](StartFailed =>
              /\ g_process = None
              /\ pumpArmed = 0
              /\ markers = <<>>
              /\ errorsShown = 1)
    /\ [][StartFailed =>
              /\ StartFailed'
              /\ lastEvent' \notin (StartEvents \cup {"start_blocked"})
              /\ ~poll_whisper_output
              /\ UNCHANGED <<errorsShown, procs, markers, g_process, pumpArmed>>]_vars

C13_Witness ==
    /\ StartFailed
    /\ lastEvent = "watch_wait"
    /\ lastPlayState = 5
    /\ g_is_recording
    /\ watcherArmed
    /\ scriptRunning

\* the handle is held and its process has exited on its own
HeldExited == g_process # None /\ procs[g_process] = "exited"

\* C14: when the process has exited on its own, the next pump tick detects
\* it, reads no line, creates no marker and does not re-arm, and the pump
\* never runs again; no process is started, the error display is not
\* invoked, no marker is created, and the watcher stays scheduled until the
\* tick that handles the record-stop edge.
C14_ExitStopsPump ==
    /\ [][(HeldExited /\ pumpArmed > 0 /\ poll_whisper_output)
           => /\ lastEvent' = "pump_dead"
              /\ lastLine' = NoLine
              /\ pumpArmed' = 0
              /\ UNCHANGED <<session, markers, procs, g_process>>]_vars
    /\ [](HeldExited => pumpArmed <= 1)
    /\ [][HeldExited =>
              /\ HeldExited'
              /\ pumpArmed' <= pumpArmed
              /\ Len(procs') = Len(procs)
              /\ UNCHANGED <<errorsShown, markers>>]_vars
    /\ [][(HeldExited /\ watcherArmed /\ ~watcherArmed')
           => /\ lastEvent' = "watch_stop"
              /\ g_is_recording
              /\ ~IsRecordingBit(lastPlayState')]_vars

C14_Witness ==
    /\ HeldExited
    /\ lastEvent = "pump_dead"
    /\ pumpArmed = 0
    /\ g_speech_started
    /\ g_is_recording
    /\ watcherArmed
    /\ errorsShown = 0
    /\ Len(procs) = 1

\* this step is a handler that calls stop_process (each does so once a run)
StopCalled == lastEvent' \in {"watch_stop", "atexit"} /\ lastEvent' # lastEvent

\* C15: stop_process is idempotent and safe in every state: a call sends the
\* termination signal to the held process when that process is alive, and
\* drops the handle; a call with no handle, with a handle whose process has
\* exited, or after an earlier successful stop sends no signal and changes
\* nothing; no call shows an error; no process is signalled by anything
\* else.
C15_StopIdempotent ==
    /\ [][StopCalled =>
            /\ IF Alive(g_process)
               THEN /\ procs' = [procs EXCEPT ![g_process] = "terminated"]
                    /\ g_process' = None
               ELSE UNCHANGED <<g_process, procs>>
            /\ UNCHANGED <<session, g_commit_interval, markers, errorsShown,
                           pumpArmed>>]_vars
    /\ [][(\E p \in DOMAIN procs : procs[p] # "terminated" /\ procs'[p] = "terminated")
            => StopCalled /\ Alive(g_process)]_vars

\* the second call (exit hook) after a stop that terminated the process
C15_Witness ==
    /\ ~scriptRunning
    /\ lastEvent = "atexit"
    /\ ~watcherArmed
    /\ g_process = None
    /\ procs = <<"terminated">>
    /\ g_speech_started

\* C16: after __reaper_atexit has run, every subprocess the script spawned
\* has exited or has been sent the termination signal, and no process
\* handle is held.
C16_ExitLeavesNothing ==
    ~scriptRunning => (Running = {} /\ g_process = None)

C18_OnePumpLoop ==
    /\ [](pumpArmed \in {0, 1})
    /\ [][/\ Len(markers') <= Len(markers) + 1
          /\ SubSeq(markers', 1, Len(markers)) = markers
          /\ linesCounted' <= linesCounted + 1
          /\ pumpArmed' <= pumpArmed + 1]_vars
    /\ [][pumpArmed' > pumpArmed => lastEvent' = "start_ok"]_vars

C18_Witness ==
    /\ pumpArmed = 1
    /\ lastEvent = "pump_commit"
    /\ Len(markers) = 2
    /\ Alive(g_process)
    /\ watcherArmed
    /\ lastPlayState = 5

\* C19: a failed start leaves no orphan: once start_process has ended in
\* its failure path (error shown, handle None), no subprocess is running
\* that the handle does not refer to, so stop_process and the exit hook can
\* reach every running subprocess.
C19_NoOrphanAfterFailedStart ==
    errorsShown > 0 => \A p \in Running : p = g_process

\* the record bit (&4) of the play state the last watcher tick sampled
SampledRecording == (lastPlayState \div RecordBit) % 2 = 1

\* C20: after every watcher tick g_is_recording equals the record bit of
\* the play state sampled on that tick, whether or not starting the process
\* succeeded, and no step other than a watcher tick changes the flag.
C20_FlagFollowsRecordState ==
    /\ [][check_recording_state => (g_is_recording' <=> SampledRecording')]_vars
    /\ [](g_is_recording <=> SampledRecording)
    /\ [][g_is_recording' # g_is_recording => check_recording_state]_vars
    /\ [][(poll_whisper_output \/ reaper_atexit \/ ProcessExit)
            => UNCHANGED <<g_is_recording, lastPlayState>>]_vars

C20_Witness ==
    /\ lastEvent = "start_nofile"
    /\ lastPlayState = 5
    /\ g_is_recording
    /\ g_process = None
    /\ errorsShown = 1

====
